---- MODULE Spec2Model ----
(***************************************************************************)
(* The balance-sweep agent of src/index.js.  The file holds three variants *)
(* of the agent:                                                           *)
(*   "keepAlive"  lines 1-99    transferKeepAlive, exact fee, timer        *)
(*   "drain"      lines 100-181 transferAll, no tip, timer                 *)
(*   "drainTip"   lines 183-285 transferAll, tip from a fixed buffer,      *)
(*                              new-block subscription                     *)
(* One run of the model is one run of one variant.                         *)
(*                                                                         *)
(* Amounts are BN values (arbitrary precision) in the source.  The model   *)
(* counts them in units of 10^7 plancks, so that the two constants of the  *)
(* source stay inside TLC's integers:                                      *)
(*   FEE_BUFFER = 50000000       =      5 units                            *)
(*   ONE_AZERO  = 1000000000000  = 100000 units                            *)
(***************************************************************************)
EXTENDS Integers, Sequences, FiniteSets

\* ------------------------------------------------------------- bounds
\* How many triggers (timer ticks / new heads) a run delivers.
MaxAttempts == 2
\* How many incoming deposits the source account receives during a run.
MaxDeposits == 1

\* ---------------------------------------------------- program constants
ONE_AZERO == 100000
FEE_BUFFER == 5

\* ------------------------------------------------------- input domains
Variants == {"keepAlive", "drain", "drainTip"}
\* Balances the account may hold when the agent starts.
InitialBalances == {0, FEE_BUFFER, ONE_AZERO, ONE_AZERO + FEE_BUFFER}
\* Amounts of an incoming deposit.
DepositAmounts == {1}
\* Values paymentInfo(...).partialFee may report.
FeeEstimates == {3, FEE_BUFFER + 1}

VARIABLES
    variant,    \* which of the three programs runs
    running,    \* the process is alive (no uncaught error has ended it)
    ledger,     \* availableBalance of the source account on the chain
    deposits,   \* deposits received so far
    attempts    \* one record per call of sweepIfNeeded / the newHeads callback

vars == <<variant, running, ledger, deposits, attempts>>

\* ----------------------------------------------------- pure decisions
\* available.lten(0)
NothingToSweepNegOnly(available) == available < 0
NothingToSweepBelowBuffer(available) == available <= FEE_BUFFER
NothingToSweep(available) == available <= 0

\* available.lte(fee)
NotEnoughStrict(available, fee) == available < fee
NotEnough(available, fee) == available <= fee

\* available.sub(fee)
AmountToSendNoFee(available, fee) == available
AmountToSend(available, fee) == available - fee

\* BN.min(a, b)
BNmin(a, b) == IF a <= b THEN a ELSE b

\* leftover = available.sub(FEE_BUFFER); if (leftover.lten(0)) leftover = 0;
\* tip = BN.min(leftover, ONE_AZERO)
TipForUncapped(available) ==
    LET leftover == available - FEE_BUFFER
    IN  IF leftover <= 0 THEN 0 ELSE leftover
TipForMaxInsteadOfMin(available) ==
    LET leftover0 == available - FEE_BUFFER
        leftover  == IF leftover0 <= 0 THEN 0 ELSE leftover0
    IN  IF leftover >= ONE_AZERO THEN leftover ELSE ONE_AZERO
TipFor(available) ==
    LET leftover0 == available - FEE_BUFFER
        leftover  == IF leftover0 <= 0 THEN 0 ELSE leftover0
    IN  BNmin(leftover, ONE_AZERO)

\* ------------------------------------------------------ attempt records
\* A fresh invocation: it has logged "Checking balance..." and awaits
\* api.derive.balances.all.
NewAttempt ==
    [ pc           |-> "balances",  \* the await the async function is parked at
      available    |-> 0,           \* balancesAll.availableBalance
      fee          |-> 0,           \* paymentInfo.partialFee
      amount       |-> 0,           \* amountToSend
      tip          |-> 0,           \* tip option of signAndSend
      hasSnapshot  |-> FALSE,       \* the balance query has resolved
      feeRequested |-> FALSE,       \* paymentInfo was called
      estimated    |-> FALSE,       \* paymentInfo has resolved
      submitted    |-> FALSE,       \* signAndSend was called
      sub          |-> "none",      \* status subscription: none / open / closed
      handle       |-> FALSE,       \* const unsub has been assigned
      seen         |-> "none",      \* last status handed to the status callback
      failed       |-> FALSE,       \* the included extrinsic had a dispatchError
      unsubCalls   |-> 0,           \* calls of unsub()
      tx           |-> "none",      \* last status of the extrinsic at the node
      out          |-> << >> ]      \* what the attempt printed

Idx == 1..Len(attempts)

\* unsub(): closes the subscription; while const unsub is still unassigned the
\* call throws a ReferenceError instead and closes nothing.
Unsub(a) ==
    IF a.handle
    THEN [a EXCEPT !.sub = "closed", !.unsubCalls = @ + 1]
    ELSE [a EXCEPT !.out = Append(@, "unsubThrew")]

\* The status callback passed to signAndSend.
StatusCallbackAlwaysSuccess(a, status, dispatchError) ==
    IF status \in {"inBlock", "finalized"}
    THEN Unsub([a EXCEPT !.out = @ \o <<"included", "success">>])
    ELSE a
StatusCallbackAnyStatus(a, status, dispatchError) ==
    Unsub([a EXCEPT !.out = @ \o <<"included",
                      IF dispatchError THEN "failed" ELSE "success">>])
StatusCallback(a, status, dispatchError) ==
    IF status \in {"inBlock", "finalized"}
    THEN Unsub([a EXCEPT !.out = @ \o <<"included",
                              IF dispatchError THEN "failed" ELSE "success">>])
    ELSE a

\* The node reports a status to the callback of an open subscription.
Delivered(a, status, dispatchError) ==
    IF a.sub = "open"
    THEN StatusCallback([a EXCEPT !.seen = status], status, dispatchError)
    ELSE a

\* The catch block: console.error, and the error goes no further.
RunningAfterCatchRethrow == FALSE
RunningAfterCatch == TRUE

Caught(a) == [a EXCEPT !.pc = "caught", !.out = Append(@, "error")]

\* The code from the resolved balance query to the next await (or return).
AfterBalances(a, available) ==
    LET b == [a EXCEPT !.available = available, !.hasSnapshot = TRUE]
    IN  IF NothingToSweep(available)
        THEN [b EXCEPT !.pc = "returned", !.out = Append(@, "noBalance")]
        ELSE CASE variant = "keepAlive" ->
                    [b EXCEPT !.pc = "paymentInfo", !.feeRequested = TRUE]
               [] variant = "drain" ->
                    [b EXCEPT !.pc = "signAndSend", !.submitted = TRUE]
               [] OTHER ->
                    [b EXCEPT !.pc = "signAndSend", !.submitted = TRUE,
                              !.tip = TipFor(available)]

\* The code from the resolved fee estimate to the next await (or return).
AfterPaymentInfoTipped(a, fee) ==
    LET b == [a EXCEPT !.fee = fee, !.estimated = TRUE]
    IN  IF NotEnough(b.available, fee)
        THEN [b EXCEPT !.pc = "returned", !.out = Append(@, "notEnough")]
        ELSE [b EXCEPT !.pc = "signAndSend", !.submitted = TRUE,
                       !.amount = AmountToSend(b.available, fee),
                       !.tip = TipFor(b.available)]
AfterPaymentInfo(a, fee) ==
    LET b == [a EXCEPT !.fee = fee, !.estimated = TRUE]
    IN  IF NotEnough(b.available, fee)
        THEN [b EXCEPT !.pc = "returned", !.out = Append(@, "notEnough")]
        ELSE [b EXCEPT !.pc = "signAndSend", !.submitted = TRUE,
                       !.amount = AmountToSend(b.available, fee)]

\* ------------------------------------------------------------- actions
Init ==
    /\ variant \in Variants
    /\ running = TRUE
    /\ ledger \in InitialBalances
    /\ deposits = 0
    /\ attempts = << >>

\* setInterval fires / a new head arrives: the handler starts, whatever the
\* earlier invocations are doing.
Trigger ==
    /\ running
    /\ Len(attempts) < MaxAttempts
    /\ attempts' = Append(attempts, NewAttempt)
    /\ UNCHANGED <<variant, running, ledger, deposits>>

\* Someone pays into the source account.
Deposit(d) ==
    /\ deposits < MaxDeposits
    /\ ledger' = ledger + d
    /\ deposits' = deposits + 1
    /\ UNCHANGED <<variant, running, attempts>>

\* api.derive.balances.all resolves with the balance of that moment.
BalancesResolveCached(i) ==
    /\ attempts[i].pc = "balances"
    /\ attempts' = [attempts EXCEPT ![i] =
                      AfterBalances(@, IF i > 1 /\ attempts[i - 1].hasSnapshot
                                       THEN attempts[i - 1].available
                                       ELSE ledger)]
    /\ UNCHANGED <<variant, running, ledger, deposits>>
BalancesResolve(i) ==
    /\ attempts[i].pc = "balances"
    /\ attempts' = [attempts EXCEPT ![i] = AfterBalances(@, ledger)]
    /\ UNCHANGED <<variant, running, ledger, deposits>>

\* api.derive.balances.all rejects.
BalancesReject(i) ==
    /\ attempts[i].pc = "balances"
    /\ attempts' = [attempts EXCEPT ![i] = Caught(@)]
    /\ running' = RunningAfterCatch
    /\ UNCHANGED <<variant, ledger, deposits>>

\* dummyTx.paymentInfo resolves.
PaymentInfoResolve(i, fee) ==
    /\ attempts[i].pc = "paymentInfo"
    /\ attempts' = [attempts EXCEPT ![i] = AfterPaymentInfo(@, fee)]
    /\ UNCHANGED <<variant, running, ledger, deposits>>

\* dummyTx.paymentInfo rejects.
PaymentInfoReject(i) ==
    /\ attempts[i].pc = "paymentInfo"
    /\ attempts' = [attempts EXCEPT ![i] = Caught(@)]
    /\ running' = RunningAfterCatch
    /\ UNCHANGED <<variant, ledger, deposits>>

\* signAndSend resolves: the pool took the extrinsic and the node sends the
\* first status (Ready).  The promise resolves on that message, the awaiting
\* function resumes in the same turn of the event loop (const unsub is
\* assigned, the function returns), and then the callback gets Ready.  Every
\* later status is a later message from the node.
SignAndSendResolveNoAwait(i) ==
    /\ attempts[i].pc = "signAndSend"
    /\ attempts' = [attempts EXCEPT ![i] =
                      Delivered([@ EXCEPT !.pc = "returned", !.sub = "open",
                                          !.tx = "ready"],
                                "ready", FALSE)]
    /\ UNCHANGED <<variant, running, ledger, deposits>>
SignAndSendResolve(i) ==
    /\ attempts[i].pc = "signAndSend"
    /\ attempts' = [attempts EXCEPT ![i] =
                      Delivered([@ EXCEPT !.pc = "returned", !.sub = "open",
                                          !.handle = TRUE, !.tx = "ready"],
                                "ready", FALSE)]
    /\ UNCHANGED <<variant, running, ledger, deposits>>

\* signAndSend rejects: the pool refused the extrinsic.
SignAndSendRejectRetry(i) ==
    /\ attempts[i].pc = "signAndSend"
    /\ attempts[i].tx = "none"
    /\ attempts' = [attempts EXCEPT ![i] =
                      [@ EXCEPT !.tx = "rejected", !.out = Append(@, "error")]]
    /\ running' = RunningAfterCatch
    /\ UNCHANGED <<variant, ledger, deposits>>
SignAndSendReject(i) ==
    /\ attempts[i].pc = "signAndSend"
    /\ attempts' = [attempts EXCEPT ![i] = Caught([@ EXCEPT !.tx = "rejected"])]
    /\ running' = RunningAfterCatch
    /\ UNCHANGED <<variant, ledger, deposits>>

\* What the transfer of attempt a takes from the account when it succeeds.
Cost(a) == IF variant = "keepAlive" THEN a.amount + a.fee ELSE ledger

\* Ready -> Broadcast.
StatusBroadcast(i) ==
    /\ attempts[i].tx = "ready"
    /\ attempts' = [attempts EXCEPT ![i] =
                      Delivered([@ EXCEPT !.tx = "broadcast"], "broadcast", FALSE)]
    /\ UNCHANGED <<variant, running, ledger, deposits>>

\* The extrinsic is included in a block, and succeeds or fails there.
StatusInBlock(i, ok) ==
    /\ attempts[i].tx \in {"ready", "broadcast"}
    /\ ok => Cost(attempts[i]) <= ledger
    /\ ledger' = IF ok THEN ledger - Cost(attempts[i]) ELSE ledger
    /\ attempts' = [attempts EXCEPT ![i] =
                      Delivered([@ EXCEPT !.tx = "inBlock", !.failed = ~ok],
                                "inBlock", ~ok)]
    /\ UNCHANGED <<variant, running, deposits>>

\* The block of the extrinsic is finalized.
StatusFinalized(i) ==
    /\ attempts[i].tx = "inBlock"
    /\ attempts' = [attempts EXCEPT ![i] =
                      Delivered([@ EXCEPT !.tx = "finalized"], "finalized", FALSE)]
    /\ UNCHANGED <<variant, running, ledger, deposits>>

\* The pool drops the extrinsic (Dropped, Invalid, Usurped): the last status
\* the node sends for it.
StatusDropped(i) ==
    /\ attempts[i].tx \in {"ready", "broadcast"}
    /\ attempts' = [attempts EXCEPT ![i] =
                      Delivered([@ EXCEPT !.tx = "dropped"], "dropped", FALSE)]
    /\ UNCHANGED <<variant, running, ledger, deposits>>

Next ==
    \/ Trigger
    \/ \E d \in DepositAmounts : Deposit(d)
    \/ \E i \in Idx : BalancesResolve(i)
    \/ \E i \in Idx : BalancesReject(i)
    \/ \E i \in Idx, fee \in FeeEstimates : PaymentInfoResolve(i, fee)
    \/ \E i \in Idx : PaymentInfoReject(i)
    \/ \E i \in Idx : SignAndSendResolve(i)
    \/ \E i \in Idx : SignAndSendReject(i)
    \/ \E i \in Idx : StatusBroadcast(i)
    \/ \E i \in Idx, ok \in BOOLEAN : StatusInBlock(i, ok)
    \/ \E i \in Idx : StatusFinalized(i)
    \/ \E i \in Idx : StatusDropped(i)

Spec == Init /\ [][Next]_vars

\* A step of attempt i: one of its promises settles, or the node reports on
\* its extrinsic.
AttemptStep(i) ==
    /\ i \in Idx
    /\ \/ BalancesResolve(i)
       \/ BalancesReject(i)
       \/ \E fee \in FeeEstimates : PaymentInfoResolve(i, fee)
       \/ PaymentInfoReject(i)
       \/ SignAndSendResolve(i)
       \/ SignAndSendReject(i)
       \/ StatusBroadcast(i)
       \/ \E ok \in BOOLEAN : StatusInBlock(i, ok)
       \/ StatusFinalized(i)
       \/ StatusDropped(i)

\* Every pending promise settles and the node reports the fate of every
\* extrinsic it accepted.
FairSpec == Spec /\ \A i \in 1..MaxAttempts : WF_vars(AttemptStep(i))

\* ---------------------------------------------------- claim vocabulary
\* The attempt has started and has not ended: its function is parked at an
\* await, or its status subscription is still open.
Active(a) == a.pc \in {"balances", "paymentInfo", "signAndSend"} \/ a.sub = "open"

\* The fate of the attempt's submission is settled: included, refused by the
\* pool, or dropped without inclusion.
Terminal(a) == a.tx \in {"inBlock", "finalized", "rejected", "dropped"}

\* The attempt printed an outcome for its submission.
Reported(a) == \E k \in 1..Len(a.out) : a.out[k] \in {"success", "failed", "error"}

\* The error of a caught attempt came from the balance query or the fee
\* estimate (a refused submission leaves tx = "rejected").
FailedBeforeSubmit(a) == a.pc = "caught" /\ a.tx = "none"

MinOf(x, y) == IF x <= y THEN x ELSE y
MaxOf(x, y) == IF x >= y THEN x ELSE y

\* --------------------------------------------------------------- claims
\* C1: single-flight -- at any time at most one attempt is active (started
\* and not yet terminal), so a second trigger during an active attempt adds
\* no second submission.
C1_SingleFlight ==
    /\ Cardinality({i \in Idx : Active(attempts[i])}) <= 1
    /\ Cardinality({i \in Idx : attempts[i].submitted /\ Active(attempts[i])}) <= 1

\* C2: every attempt that reached submission eventually reaches a terminal
\* state with its status subscription released, on each path (included with
\* success, included with failure, rejected, dropped).
C2_EventuallyReleased ==
    \A i \in 1..MaxAttempts :
        [](  (i \in Idx /\ attempts[i].submitted)
          => <>(i \in Idx /\ Terminal(attempts[i]) /\ attempts[i].sub # "open"))

\* C3: once an attempt is terminal, the status subscription it opened has
\* been unsubscribed exactly once: it is not left open, and unsub never runs
\* twice for one submission.
C3_UnsubExactlyOnce ==
    \A i \in Idx :
        LET a == attempts[i]
        IN  /\ a.unsubCalls <= 1
            /\ (Terminal(a) /\ a.sub # "none") => (a.sub = "closed" /\ a.unsubCalls = 1)

\* C4: an error of the balance query or of the fee estimate is caught at the
\* attempt boundary: that attempt submits nothing and holds nothing, the
\* process keeps running, and the next trigger can still start an attempt.
C4_ErrorsContained ==
    \A i \in Idx :
        FailedBeforeSubmit(attempts[i]) =>
            /\ ~attempts[i].submitted
            /\ attempts[i].sub = "none"
            /\ ~Active(attempts[i])
            /\ running
            /\ (Len(attempts) < MaxAttempts => ENABLED Trigger)

\* C4 witness: an attempt failed in its balance query or fee estimate, and an
\* attempt started by a later trigger has submitted.
C4_Witness ==
    \E i, j \in Idx :
        /\ i < j
        /\ FailedBeforeSubmit(attempts[i])
        /\ attempts[j].submitted

\* C5: keepAlive with the exact fee -- every submitted amount satisfies
\* amount + fee = available and amount > 0 (the snapshot exceeded the fee).
C5_KeepAliveExact ==
    variant = "keepAlive" =>
        \A i \in Idx :
            attempts[i].submitted =>
                /\ attempts[i].available > attempts[i].fee
                /\ attempts[i].amount + attempts[i].fee = attempts[i].available
                /\ attempts[i].amount > 0

\* C5 witness: a keepAlive attempt submitted a transfer after a non-zero fee
\* estimate.
C5_Witness ==
    /\ variant = "keepAlive"
    /\ \E i \in Idx : attempts[i].submitted /\ attempts[i].fee > 0
                      /\ attempts[i].amount > 0

\* C6: keepAlive -- when available <= fee (equality included) the attempt
\* ends without a signAndSend call; no zero or negative amount is submitted.
C6_KeepAliveNoZero ==
    variant = "keepAlive" =>
        \A i \in Idx :
            LET a == attempts[i]
            IN  /\ (a.estimated /\ a.available <= a.fee) =>
                      (~a.submitted /\ a.pc = "returned" /\ a.tx = "none")
                /\ a.submitted => a.amount > 0

\* C6 witness: a keepAlive attempt whose snapshot equalled the fee estimate
\* returned without submitting.
C6_Witness ==
    /\ variant = "keepAlive"
    /\ \E i \in Idx : /\ attempts[i].estimated
                      /\ attempts[i].available = attempts[i].fee
                      /\ attempts[i].pc = "returned"
                      /\ ~attempts[i].submitted

\* C7: drain with tip -- the tip passed to signAndSend equals
\* min(ONE_AZERO, max(0, available - FEE_BUFFER)); it is never negative,
\* never above the cap and never above what is left after the buffer.
C7_TipFormula ==
    variant = "drainTip" =>
        \A i \in Idx :
            LET a == attempts[i]
                left == MaxOf(0, a.available - FEE_BUFFER)
            IN  a.submitted =>
                    /\ a.tip = MinOf(ONE_AZERO, left)
                    /\ a.tip >= 0
                    /\ a.tip <= ONE_AZERO
                    /\ a.tip <= left

\* C7 witness: a drainTip attempt whose leftover exceeded the cap submitted
\* with the tip at the cap.
C7_Witness ==
    /\ variant = "drainTip"
    /\ \E i \in Idx : /\ attempts[i].submitted
                      /\ attempts[i].available - FEE_BUFFER > ONE_AZERO
                      /\ attempts[i].tip = ONE_AZERO

\* C8: in every variant an attempt whose snapshot has available = 0 ends as
\* "no sweep": no fee estimate is requested and nothing is submitted.
C8_ZeroShortCircuits ==
    \A i \in Idx :
        LET a == attempts[i]
        IN  (a.hasSnapshot /\ a.available = 0) =>
                /\ ~a.feeRequested
                /\ ~a.submitted
                /\ a.pc = "returned"
                /\ a.tx = "none"

\* C8 witness: an attempt read a snapshot of 0 and returned.
C8_Witness ==
    \E i \in Idx : /\ attempts[i].hasSnapshot
                   /\ attempts[i].available = 0
                   /\ attempts[i].pc = "returned"

\* C9: drain -- with 0 < available <= FEE_BUFFER the attempt still submits
\* the send-all transfer, with tip 0.
C9_DrainBelowBuffer ==
    variant \in {"drain", "drainTip"} =>
        \A i \in Idx :
            LET a == attempts[i]
            IN  (a.hasSnapshot /\ 0 < a.available /\ a.available <= FEE_BUFFER) =>
                    (a.submitted /\ a.tip = 0)

\* C9 witness: a drainTip attempt with a snapshot equal to the buffer was
\* accepted by the pool with tip 0.
C9_Witness ==
    /\ variant = "drainTip"
    /\ \E i \in Idx : /\ attempts[i].available = FEE_BUFFER
                      /\ attempts[i].submitted
                      /\ attempts[i].tip = 0
                      /\ attempts[i].tx = "ready"

\* C10: every terminal outcome of an attempt (success, failure after
\* inclusion, rejection, drop without inclusion) has a report.
C10_TerminalReported ==
    \A i \in Idx : Terminal(attempts[i]) => Reported(attempts[i])

\* The attempt printed the line x.
Printed(a, x) == \E k \in 1..Len(a.out) : a.out[k] = x

\* C11: when inclusion is reported, the attempt prints "success" exactly when
\* the update carries no dispatch error and "failed" exactly when it carries
\* one; both outcomes end the attempt (the subscription is closed).
C11_OutcomeMatchesDispatch ==
    \A i \in Idx :
        LET a == attempts[i]
        IN  /\ a.tx \in {"inBlock", "finalized"} =>
                /\ Printed(a, "success") <=> ~a.failed
                /\ Printed(a, "failed") <=> a.failed
                /\ a.sub = "closed"
                /\ ~Active(a)
            /\ (Printed(a, "success") \/ Printed(a, "failed")) =>
                   a.tx \in {"inBlock", "finalized"}

\* C11 witness: one attempt was included with a dispatch error and printed
\* "failed", another was included without one and printed "success".
C11_Witness ==
    \E i, j \in Idx :
        /\ attempts[i].tx = "inBlock" /\ attempts[i].failed
        /\ Printed(attempts[i], "failed")
        /\ attempts[j].tx = "inBlock" /\ ~attempts[j].failed
        /\ Printed(attempts[j], "success")

\* C12: inclusion is not terminal -- the attempt keeps observing its
\* transaction after the in-block update, so the Finalized update that
\* follows is handed to the same attempt's callback.
C12_FinalityObserved ==
    \A i \in Idx :
        attempts[i].tx = "finalized" => attempts[i].seen = "finalized"

\* The amount and tip that follow from a snapshot and a fee estimate alone.
PlanOf(available, fee) ==
    [ amount |-> IF variant = "keepAlive" THEN available - fee ELSE 0,
      tip    |-> IF variant = "drainTip"
                 THEN MinOf(ONE_AZERO, MaxOf(0, available - FEE_BUFFER))
                 ELSE 0 ]

\* C13: every attempt fetches its own snapshot after its trigger -- the value
\* it stores is the account's balance at the moment its query resolves --
\* keeps it unchanged, and submits an amount and tip computed from it alone;
\* a newly triggered attempt starts with no snapshot and no plan.
C13_OwnSnapshot ==
    /\ [][\A i \in Idx :
            (~attempts[i].hasSnapshot /\ attempts'[i].hasSnapshot)
                => attempts'[i].available = ledger]_vars
    /\ [][\A i \in Idx :
            attempts[i].hasSnapshot
                => (attempts'[i].hasSnapshot
                    /\ attempts'[i].available = attempts[i].available)]_vars
    /\ [][Len(attempts') > Len(attempts)
            => LET n == attempts'[Len(attempts')]
               IN  ~n.hasSnapshot /\ ~n.estimated /\ ~n.submitted
                   /\ n.amount = 0 /\ n.tip = 0]_vars
    /\ [](\A i \in Idx :
            attempts[i].submitted =>
                /\ attempts[i].hasSnapshot
                /\ attempts[i].amount
                     = PlanOf(attempts[i].available, attempts[i].fee).amount
                /\ attempts[i].tip
                     = PlanOf(attempts[i].available, attempts[i].fee).tip)

\* C13 witness: two attempts submitted, the later one from a snapshot that
\* differs from the earlier one's and equals the balance of the account.
C13_Witness ==
    \E i, j \in Idx :
        /\ i < j
        /\ attempts[i].submitted /\ attempts[j].submitted
        /\ attempts[j].pc = "signAndSend"
        /\ attempts[j].available # attempts[i].available
        /\ attempts[j].available = ledger

\* C14: a submission the pool refuses ends its attempt at once -- the error
\* is caught and printed, no subscription or handle is left, the process
\* keeps running -- and the attempt never acts again (no retry); only an
\* attempt started by a later trigger, with its own snapshot, submits again.
C14_RejectedEndsAttempt ==
    /\ [](\A i \in Idx :
            attempts[i].tx = "rejected" =>
                /\ attempts[i].pc = "caught"
                /\ attempts[i].sub = "none"
                /\ ~attempts[i].handle
                /\ attempts[i].unsubCalls = 0
                /\ ~Active(attempts[i])
                /\ Printed(attempts[i], "error")
                /\ running)
    /\ [][\A i \in Idx :
            attempts[i].tx = "rejected" => attempts'[i] = attempts[i]]_vars

\* C14 witness: an attempt was refused by the pool, and an attempt started
\* by a later trigger has read its own snapshot and submitted.
C14_Witness ==
    \E i, j \in Idx :
        /\ i < j
        /\ attempts[i].tx = "rejected"
        /\ attempts[j].hasSnapshot
        /\ attempts[j].submitted
        /\ attempts[j].tx = "ready"

\* C15: keepAlive never attaches a tip -- every submission of the keepAlive
\* variant carries tip 0, whatever the snapshot and the fee estimate.
C15_KeepAliveNoTip ==
    variant = "keepAlive" =>
        \A i \in Idx : attempts[i].submitted => attempts[i].tip = 0

\* C15 witness: a keepAlive attempt whose snapshot leaves more than the
\* buffer was accepted by the pool with tip 0.
C15_Witness ==
    /\ variant = "keepAlive"
    /\ \E i \in Idx : /\ attempts[i].submitted
                      /\ attempts[i].tx = "ready"
                      /\ attempts[i].available > FEE_BUFFER + ONE_AZERO
                      /\ attempts[i].tip = 0

C17_OtherStatusNoEffect ==
    [][\A i \in Idx :
         (attempts'[i].seen # attempts[i].seen
          /\ attempts'[i].seen \notin {"inBlock", "finalized"})
             => /\ attempts'[i].out = attempts[i].out
                /\ attempts'[i].unsubCalls = attempts[i].unsubCalls
                /\ attempts'[i].sub = "open"
                /\ Active(attempts'[i])
                /\ ~Reported(attempts'[i])]_vars

\* C17 witness: the callback of an attempt got the Broadcast status and the
\* attempt is still pending with nothing reported.
C17_Witness ==
    \E i \in Idx : /\ attempts[i].seen = "broadcast"
                   /\ attempts[i].sub = "open"
                   /\ attempts[i].unsubCalls = 0
                   /\ ~Reported(attempts[i])

\* The transfer of the attempt is submitted and not yet included, refused or
\* dropped.
Outstanding(a) == a.submitted /\ a.tx \in {"none", "ready", "broadcast"}

\* amount + fee over the outstanding transfers of attempts 1..k.
RECURSIVE SumOutstanding(_)
SumOutstanding(k) ==
    IF k = 0 THEN 0
    ELSE SumOutstanding(k - 1)
         + (IF Outstanding(attempts[k])
            THEN attempts[k].amount + attempts[k].fee ELSE 0)

\* C18: keepAlive timer variant -- the sum of amount + fee over all
\* submitted, not yet included transfers never exceeds the account's
\* available balance: no two outstanding transfers are planned against the
\* same unspent balance.
C18_OutstandingWithinBalance ==
    variant = "keepAlive" => SumOutstanding(Len(attempts)) <= ledger

====
